---- MODULE Spec2Model ----
(***************************************************************************)
(* Model of src/information_project.py: the Huffman source coder, the      *)
(* Hamming(7,4) channel coder, the error injector add_errors and the       *)
(* pipeline driver main().                                                 *)
(*                                                                         *)
(* Representation.                                                         *)
(*   - a Python str is a sequence of one-character strings; a bitstring is *)
(*     a sequence over {"0","1"}; the int lists of the Hamming coder are   *)
(*     sequences over {0,1}, converted by the code's own two helpers.      *)
(*   - a dict is kept in insertion order where the code iterates it        *)
(*     (probabilities: a sequence of [sym, prob]) and as a function where  *)
(*     it is only looked up (the code table).                              *)
(*   - HuffmanNode objects live in the arena `nodes`; a reference is an    *)
(*     index into it (NoNode for None), so the index of a node is also the *)
(*     order in which it was created.                                      *)
(*   - a probability count/total is the exact fraction [num, den].  Within *)
(*     the bounds of this model the float comparisons of the code agree    *)
(*     with the exact ones.                                                *)
(***************************************************************************)
EXTENDS Integers, Sequences, FiniteSets, TLC

\* ------------------------------------------------------------------ bounds
MaxLen == 5          \* longest source text
MaxInterval == 8     \* largest error interval tried by the pipeline
MaxBits == 7         \* longest bitstream handed to the channel coder alone
MaxFlips == 2        \* most bits the channel flips in one stream
MaxCoded == 8        \* longest stream handed to hamming_7_4_decode directly
MaxPad == 4          \* largest pad count handed to hamming_7_4_decode directly
MaxThreadBits == 2   \* longest bitstring of a concurrent add_errors call
MaxThreadInterval == 3  \* largest interval of a concurrent add_errors call
MaxTreeLen == 4      \* longest text whose tree decodes arbitrary bitstreams
MaxStream == 6       \* longest bitstream handed to huffman_decode directly

Symbols == {"a", "b", "c", "d"}
Seeds == {123, 2024}
Threads == {1, 2}
Bit == {"0", "1"}

NoNode == 0
NoSymbol == "None"

BitStrings(n) == UNION {[1..k -> Bit] : k \in 0..n}
Texts == UNION {[1..k -> Symbols] : k \in 0..MaxLen}

VARIABLES
  pc,               \* position of main()
  raised,           \* the exception that ended the run, "None" if none
  text,
  probabilities,
  nodes,            \* the arena of HuffmanNode objects
  heap,             \* build_huffman_tree's heap: a sequence of node references
  huff_root,
  huff_codes,
  encoded_bits,
  decoded_text,
  hamming_bits,
  pad_bits,
  error_interval,
  seed,
  corrupted_bits,
  flipped,          \* 0-based indices the channel has flipped (history)
  recovered_bits,
  error_positions,  \* error_pos of each block of the last hamming_7_4_decode
  rng,              \* state of the module-level generator of `random`
  thr_pc,           \* concurrent add_errors calls: position,
  thr_bits,         \*   arguments,
  thr_interval,
  thr_seed,
  thr_start,        \*   local start_index,
  thr_result        \*   and returned bitstring

vars == <<pc, raised, text, probabilities, nodes, heap, huff_root, huff_codes,
          encoded_bits, decoded_text, hamming_bits, pad_bits, error_interval,
          seed, corrupted_bits, flipped, recovered_bits, error_positions, rng,
          thr_pc, thr_bits, thr_interval, thr_seed, thr_start, thr_result>>

pipeVars == <<pc, raised, text, probabilities, nodes, heap, huff_root,
              huff_codes, encoded_bits, decoded_text, hamming_bits, pad_bits,
              error_interval, seed, corrupted_bits, flipped, recovered_bits,
              error_positions>>

thrVars == <<thr_pc, thr_bits, thr_interval, thr_seed, thr_start, thr_result>>

\* ------------------------------------------------- Part 1: probabilities

RECURSIVE CounterKeys(_, _)
\* the keys of collections.Counter(text): distinct symbols, first seen first
CounterKeys(t, seen) ==
  IF t = <<>> THEN seen
  ELSE IF \E i \in 1..Len(seen) : seen[i] = Head(t)
       THEN CounterKeys(Tail(t), seen)
       ELSE CounterKeys(Tail(t), Append(seen, Head(t)))

Count(t, sym) == Cardinality({i \in 1..Len(t) : t[i] = sym})

compute_symbol_probabilities(t) ==
  IF t = <<>> THEN <<>>
  ELSE LET keys == CounterKeys(t, <<>>)
           total == Len(t)
       IN [i \in 1..Len(keys) |->
             [sym |-> keys[i], prob |-> [num |-> Count(t, keys[i]), den |-> total]]]

\* ------------------------------------------------- Huffman tree and codes

HuffmanNode(symbol, prob, left, right) ==
  [symbol |-> symbol, prob |-> prob, left |-> left, right |-> right]

\* HuffmanNode.__lt__: self.prob < other.prob, on exact fractions
HuffmanNode_lt(ns, x, y) ==
  ns[x].prob.num * ns[y].prob.den < ns[y].prob.num * ns[x].prob.den

\* n1.prob + n2.prob
ProbAdd(p, q) ==
  IF p.den = q.den THEN [num |-> p.num + q.num, den |-> p.den]
  ELSE [num |-> p.num * q.den + q.num * p.den, den |-> p.den * q.den]

RECURSIVE siftdown_loop(_, _, _, _, _)
siftdown_loop(ns, h, startpos, pos, newitem) ==
  IF pos > startpos
  THEN LET parentpos == (pos - 1) \div 2
           parent == h[parentpos + 1]
       IN IF HuffmanNode_lt(ns, newitem, parent)
          THEN siftdown_loop(ns, [h EXCEPT ![pos + 1] = parent], startpos,
                             parentpos, newitem)
          ELSE [h EXCEPT ![pos + 1] = newitem]
  ELSE [h EXCEPT ![pos + 1] = newitem]

\* heapq._siftdown(heap, startpos, pos)
siftdown(ns, h, startpos, pos) == siftdown_loop(ns, h, startpos, pos, h[pos + 1])

RECURSIVE siftup_loop(_, _, _, _)
\* the while loop of heapq._siftup: <<heap, pos>> when it ends
siftup_loop(ns, h, pos, newitem) ==
  LET endpos == Len(h)
      childpos == 2 * pos + 1
  IN IF childpos < endpos
     THEN LET rightpos == childpos + 1
              c == IF rightpos < endpos
                      /\ ~HuffmanNode_lt(ns, h[childpos + 1], h[rightpos + 1])
                   THEN rightpos ELSE childpos
          IN siftup_loop(ns, [h EXCEPT ![pos + 1] = h[c + 1]], c, newitem)
     ELSE <<[h EXCEPT ![pos + 1] = newitem], pos>>

\* heapq._siftup(heap, pos)
siftup(ns, h, pos) ==
  LET r == siftup_loop(ns, h, pos, h[pos + 1])
  IN siftdown(ns, r[1], pos, r[2])

RECURSIVE heapify_from(_, _, _)
heapify_from(ns, h, i) ==
  IF i < 0 THEN h ELSE heapify_from(ns, siftup(ns, h, i), i - 1)

\* heapq.heapify(heap): for i in reversed(range(n // 2)): _siftup(x, i)
heapify(ns, h) == heapify_from(ns, h, (Len(h) \div 2) - 1)

\* heapq.heappop(heap): [item, heap]
heappop(ns, h) ==
  LET lastelt == h[Len(h)]
      rest == SubSeq(h, 1, Len(h) - 1)
  IN IF rest # <<>>
     THEN [item |-> rest[1], heap |-> siftup(ns, [rest EXCEPT ![1] = lastelt], 0)]
     ELSE [item |-> lastelt, heap |-> rest]

\* heapq.heappush(heap, item)
heappush(ns, h, item) == siftdown(ns, Append(h, item), 0, Len(h))

\* merge_step with the children of the parent exchanged: left=n2, right=n1
merge_step_swapped(ns, h) ==
  LET p1 == heappop(ns, h)
      p2 == heappop(ns, p1.heap)
      n1 == p1.item
      n2 == p2.item
      ns2 == Append(ns, HuffmanNode(NoSymbol, ProbAdd(ns[n1].prob, ns[n2].prob), n2, n1))
  IN [nodes |-> ns2, heap |-> heappush(ns2, p2.heap, Len(ns2)), n1 |-> n1, n2 |-> n2]

\* one pass of `while len(heap) > 1`: [nodes, heap, n1, n2]
merge_step(ns, h) ==
  LET p1 == heappop(ns, h)
      p2 == heappop(ns, p1.heap)
      n1 == p1.item
      n2 == p2.item
      ns2 == Append(ns, HuffmanNode(NoSymbol, ProbAdd(ns[n1].prob, ns[n2].prob), n1, n2))
  IN [nodes |-> ns2, heap |-> heappush(ns2, p2.heap, Len(ns2)), n1 |-> n1, n2 |-> n2]

EmptyDict == [x \in {} |-> <<>>]

\* codes[key] = value
DictSet(d, key, value) ==
  [x \in DOMAIN d \cup {key} |-> IF x = key THEN value ELSE d[x]]

RECURSIVE traverse_sameEdge(_, _, _, _)
\* traverse with the right edge appending "0" like the left one
traverse_sameEdge(ns, codes, node, prefix) ==
  IF ns[node].symbol # NoSymbol
  THEN DictSet(codes, ns[node].symbol, IF prefix # <<>> THEN prefix ELSE <<"0">>)
  ELSE LET c1 == IF ns[node].left # NoNode
                 THEN traverse_sameEdge(ns, codes, ns[node].left, prefix \o <<"0">>)
                 ELSE codes
       IN IF ns[node].right # NoNode
          THEN traverse_sameEdge(ns, c1, ns[node].right, prefix \o <<"0">>)
          ELSE c1

RECURSIVE traverse(_, _, _, _)
traverse(ns, codes, node, prefix) ==
  IF ns[node].symbol # NoSymbol
  THEN DictSet(codes, ns[node].symbol, IF prefix # <<>> THEN prefix ELSE <<"0">>)
  ELSE LET c1 == IF ns[node].left # NoNode
                 THEN traverse(ns, codes, ns[node].left, prefix \o <<"0">>)
                 ELSE codes
       IN IF ns[node].right # NoNode
          THEN traverse(ns, c1, ns[node].right, prefix \o <<"1">>)
          ELSE c1

build_huffman_codes(ns, root) ==
  IF root = NoNode THEN EmptyDict ELSE traverse(ns, EmptyDict, root, <<>>)

RECURSIVE huffman_encode(_, _)
\* "".join(codes[ch] for ch in text)
huffman_encode(t, codes) ==
  IF t = <<>> THEN <<>> ELSE codes[Head(t)] \o huffman_encode(Tail(t), codes)

RECURSIVE decode_loop_noReset(_, _, _, _, _)
\* decode_loop without `node = root` after a symbol is emitted
decode_loop_noReset(ns, root, bits, node, result) ==
  IF bits = <<>> THEN [raised |-> "None", out |-> result]
  ELSE LET next == IF Head(bits) = "0" THEN ns[node].left ELSE ns[node].right
       IN IF next = NoNode
          THEN [raised |-> "AttributeError", out |-> <<>>]
          ELSE IF ns[next].symbol # NoSymbol
               THEN decode_loop_noReset(ns, root, Tail(bits), next,
                                        Append(result, ns[next].symbol))
               ELSE decode_loop_noReset(ns, root, Tail(bits), next, result)

RECURSIVE decode_loop_strict(_, _, _, _, _)
\* decode_loop that raises when the bits end on an internal node
decode_loop_strict(ns, root, bits, node, result) ==
  IF bits = <<>>
  THEN IF node # root
       THEN [raised |-> "ValueError", out |-> <<>>]
       ELSE [raised |-> "None", out |-> result]
  ELSE LET next == IF Head(bits) = "0" THEN ns[node].left ELSE ns[node].right
       IN IF next = NoNode
          THEN [raised |-> "AttributeError", out |-> <<>>]
          ELSE IF ns[next].symbol # NoSymbol
               THEN decode_loop_strict(ns, root, Tail(bits), root,
                                       Append(result, ns[next].symbol))
               ELSE decode_loop_strict(ns, root, Tail(bits), next, result)

RECURSIVE decode_loop(_, _, _, _, _)
\* the for loop of huffman_decode; moving to an absent child makes the next
\* attribute access raise AttributeError
decode_loop(ns, root, bits, node, result) ==
  IF bits = <<>> THEN [raised |-> "None", out |-> result]
  ELSE LET next == IF Head(bits) = "0" THEN ns[node].left ELSE ns[node].right
       IN IF next = NoNode
          THEN [raised |-> "AttributeError", out |-> <<>>]
          ELSE IF ns[next].symbol # NoSymbol
               THEN decode_loop(ns, root, Tail(bits), root,
                                Append(result, ns[next].symbol))
               ELSE decode_loop(ns, root, Tail(bits), next, result)

huffman_decode(ns, bits, root) ==
  IF root = NoNode THEN [raised |-> "None", out |-> <<>>]
  ELSE decode_loop(ns, root, bits, root, <<>>)

\* ------------------------------------------------- Hamming(7,4)

\* _bitstr_to_int_list: 1 for "1", 0 for anything else
bitstr_to_int_list(bits) == [i \in 1..Len(bits) |-> IF bits[i] = "1" THEN 1 ELSE 0]

\* _int_list_to_bitstr: "1" for a truthy int, "0" otherwise
int_list_to_bitstr(ints) == [i \in 1..Len(ints) |-> IF ints[i] # 0 THEN "1" ELSE "0"]

\* int(ch) for a character of a bitstring
CharToInt(ch) == IF ch = "1" THEN 1 ELSE 0

\* a ^ b on bits
Xor(a, b) == (a + b) % 2

Zeros(n) == [i \in 1..n |-> "0"]

\* the codeword of the 4-bit group that starts at 0-based index i
encode_block(padded, i) ==
  LET d1 == CharToInt(padded[i + 1])
      d2 == CharToInt(padded[i + 2])
      d3 == CharToInt(padded[i + 3])
      d4 == CharToInt(padded[i + 4])
      p1 == Xor(Xor(d1, d2), d4)
      p2 == Xor(Xor(d1, d3), d4)
      p4 == Xor(Xor(d2, d3), d4)
  IN <<p1, p2, d1, p4, d2, d3, d4>>

RECURSIVE encode_blocks(_, _)
\* for i in range(0, len(bitstring_padded), 4): encoded_bits.extend(codeword)
encode_blocks(padded, i) ==
  IF i < Len(padded)
  THEN encode_block(padded, i) \o encode_blocks(padded, i + 4)
  ELSE <<>>

\* pad_count without the outer `% 4`: 4 for a length that is a multiple of 4
pad_count_noMod(bitstring) == 4 - (Len(bitstring) % 4)

\* pad_bits = (4 - (len(bitstring) % 4)) % 4
pad_count(bitstring) == (4 - (Len(bitstring) % 4)) % 4

\* hamming_7_4_encode(bitstring): [bits, pad]
hamming_7_4_encode(bitstring) ==
  IF bitstring = <<>> THEN [bits |-> <<>>, pad |-> 0]
  ELSE LET pad == pad_count(bitstring)
           padded == bitstring \o Zeros(pad)
       IN [bits |-> int_list_to_bitstr(encode_blocks(padded, 0)), pad |-> pad]

\* syndrome with the weights of s2 and s4 exchanged
syndrome_swapped(bits, i) ==
  LET s1 == Xor(Xor(Xor(bits[i + 1], bits[i + 3]), bits[i + 5]), bits[i + 7])
      s2 == Xor(Xor(Xor(bits[i + 2], bits[i + 3]), bits[i + 6]), bits[i + 7])
      s4 == Xor(Xor(Xor(bits[i + 4], bits[i + 5]), bits[i + 6]), bits[i + 7])
  IN s1 + 4 * s2 + 2 * s4

\* error_pos = s1 + (s2 << 1) + (s4 << 2) of the block at 0-based index i
syndrome(bits, i) ==
  LET s1 == Xor(Xor(Xor(bits[i + 1], bits[i + 3]), bits[i + 5]), bits[i + 7])
      s2 == Xor(Xor(Xor(bits[i + 2], bits[i + 3]), bits[i + 6]), bits[i + 7])
      s4 == Xor(Xor(Xor(bits[i + 4], bits[i + 5]), bits[i + 6]), bits[i + 7])
  IN s1 + 2 * s2 + 4 * s4

\* correct_block that never flips: the syndrome is computed and ignored
correct_block_skip(bits, i, error_pos) == bits

\* if error_pos != 0: bits[i + error_pos - 1] ^= 1
correct_block(bits, i, error_pos) ==
  IF error_pos # 0
  THEN [bits EXCEPT ![i + error_pos] = Xor(@, 1)]
  ELSE bits

RECURSIVE decode_blocks(_, _, _, _)
\* for i in range(0, len(bits), 7): [data, error_pos] of all blocks
decode_blocks(bits, i, data_bits, positions) ==
  IF i < Len(bits)
  THEN LET error_pos == syndrome(bits, i)
           fixed == correct_block(bits, i, error_pos)
       IN decode_blocks(fixed, i + 7,
                        data_bits \o <<fixed[i + 3], fixed[i + 5], fixed[i + 6], fixed[i + 7]>>,
                        Append(positions, error_pos))
  ELSE [data |-> data_bits, error_pos |-> positions]

\* data_bits[:-pad_bits] when pad_bits > 0
strip_pad(data_bits, pad) ==
  IF pad > 0
  THEN SubSeq(data_bits, 1, IF Len(data_bits) > pad THEN Len(data_bits) - pad ELSE 0)
  ELSE data_bits

\* hamming_7_4_decode without the length check: a trailing partial block is dropped
hamming_7_4_decode_noCheck(coded, pad) ==
  IF coded = <<>> THEN [raised |-> "None", out |-> <<>>, error_pos |-> <<>>]
  ELSE LET whole == SubSeq(coded, 1, 7 * (Len(coded) \div 7))
           r == decode_blocks(bitstr_to_int_list(whole), 0, <<>>, <<>>)
       IN [raised |-> "None",
           out |-> int_list_to_bitstr(strip_pad(r.data, pad)),
           error_pos |-> r.error_pos]

\* hamming_7_4_decode(encoded_bits, pad_bits): [raised, out, error_pos]
hamming_7_4_decode(coded, pad) ==
  IF coded = <<>> THEN [raised |-> "None", out |-> <<>>, error_pos |-> <<>>]
  ELSE IF Len(coded) % 7 # 0
       THEN [raised |-> "ValueError", out |-> <<>>, error_pos |-> <<>>]
       ELSE LET r == decode_blocks(bitstr_to_int_list(coded), 0, <<>>, <<>>)
            IN [raised |-> "None",
                out |-> int_list_to_bitstr(strip_pad(r.data, pad)),
                error_pos |-> r.error_pos]

\* ------------------------------------------------- the generator of `random`

\* The high 4 bits of the first outputs of CPython's Mersenne Twister after
\* random.seed(s), for the two seeds the source names (getrandbits(32) >> 28).
MTHigh4(s) ==
  IF s = 123 THEN <<0, 4, 1, 12, 6, 4, 1, 13, 14, 13>>
  ELSE <<7, 2, 11, 9, 4, 3, 14, 11, 6, 12>>

\* random.seed(seed): the generator restarts from the seed
random_seed(s) == [seed |-> s, pos |-> 0]

\* n.bit_length()
bit_length(n) == IF n = 0 THEN 0 ELSE IF n < 2 THEN 1 ELSE IF n < 4 THEN 2 ELSE IF n < 8 THEN 3 ELSE 4

\* getrandbits(k), k <= 4: the high k bits of the next output; [value, rng]
getrandbits(g, k) ==
  [value |-> MTHigh4(g.seed)[g.pos + 1] \div (2 ^ (4 - k)),
   rng |-> [g EXCEPT !.pos = @ + 1]]

RECURSIVE randbelow(_, _)
\* Random._randbelow(n): r = getrandbits(k); while r >= n: r = getrandbits(k)
randbelow(g, n) ==
  LET r == getrandbits(g, bit_length(n))
  IN IF r.value >= n THEN randbelow(r.rng, n) ELSE r

\* random.randint(0, max(0, interval - 1)) if interval > 1 else 0; [value, rng]
draw_start(g, interval) ==
  IF interval > 1
  THEN randbelow(g, (IF interval - 1 > 0 THEN interval - 1 ELSE 0) + 1)
  ELSE [value |-> 0, rng |-> g]

\* ------------------------------------------------- Part 5: add_errors

FlipChar(ch) == IF ch = "1" THEN "0" ELSE "1"

RECURSIVE flip_loop_noStep(_, _, _)
\* flip_loop over range(start_index, len(bits)): the step is left out
flip_loop_noStep(bits, i, interval) ==
  IF i < Len(bits)
  THEN flip_loop_noStep([bits EXCEPT ![i + 1] = FlipChar(@)], i + 1, interval)
  ELSE bits

RECURSIVE flip_loop(_, _, _)
\* for i in range(start_index, len(bits), interval): bits[i] = flipped bits[i]
flip_loop(bits, i, interval) ==
  IF i < Len(bits)
  THEN flip_loop([bits EXCEPT ![i + 1] = FlipChar(@)], i + interval, interval)
  ELSE bits

\* add_errors without random.seed(seed): the draw continues from state g
add_errors_noSeed(bitstring, interval, s, g) ==
  IF bitstring = <<>> \/ interval <= 0
  THEN [out |-> bitstring, rng |-> g]
  ELSE LET d == draw_start(g, interval)
       IN [out |-> flip_loop(bitstring, d.value, interval), rng |-> d.rng]

\* add_errors(bitstring, interval, seed) run from generator state g: [out, rng]
add_errors(bitstring, interval, s, g) ==
  IF bitstring = <<>> \/ interval <= 0
  THEN [out |-> bitstring, rng |-> g]
  ELSE LET d == draw_start(random_seed(s), interval)
       IN [out |-> flip_loop(bitstring, d.value, interval), rng |-> d.rng]

\* ------------------------------------------------- states

NoThreads ==
  /\ thr_pc = [t \in Threads |-> "idle"]
  /\ thr_bits = [t \in Threads |-> <<>>]
  /\ thr_interval = [t \in Threads |-> 0]
  /\ thr_seed = [t \in Threads |-> 0]
  /\ thr_start = [t \in Threads |-> 0]
  /\ thr_result = [t \in Threads |-> <<>>]

NoArtifacts ==
  /\ raised = "None"
  /\ probabilities = <<>>
  /\ nodes = <<>>
  /\ heap = <<>>
  /\ huff_root = NoNode
  /\ huff_codes = EmptyDict
  /\ decoded_text = <<>>
  /\ hamming_bits = <<>>
  /\ error_interval = 0
  /\ seed = 0
  /\ flipped = {}
  /\ recovered_bits = <<>>
  /\ error_positions = <<>>

\* main() is entered with some Text.txt; the generator of `random` is in
\* whatever state the process left it
Init ==
  /\ pc = "part1"
  /\ text \in Texts
  /\ encoded_bits = <<>>
  /\ pad_bits = 0
  /\ corrupted_bits = <<>>
  /\ NoArtifacts
  /\ rng \in {random_seed(s) : s \in Seeds}
  /\ NoThreads

\* ------------------------------------------------- main()

\* Part 1: probabilities = compute_symbol_probabilities(text)
Part1 ==
  /\ pc = "part1"
  /\ probabilities' = compute_symbol_probabilities(text)
  /\ pc' = "part2_tree"
  /\ UNCHANGED <<raised, text, nodes, heap, huff_root, huff_codes, encoded_bits,
                 decoded_text, hamming_bits, pad_bits, error_interval, seed,
                 corrupted_bits, flipped, recovered_bits, error_positions, rng>>
  /\ UNCHANGED thrVars

\* the leaves of build_huffman_tree, in the order of probabilities.items()
Leaves(probs) ==
  [i \in 1..Len(probs) |-> HuffmanNode(probs[i].sym, probs[i].prob, NoNode, NoNode)]

\* build_huffman_tree_head without `if not heap: return None`: with no symbol
\* the loop is skipped and `return heap[0]` raises IndexError
build_huffman_tree_head_noGuard(probs) ==
  LET leaves == Leaves(probs)
      ids == [i \in 1..Len(leaves) |-> i]
      h == heapify(leaves, ids)
  IN IF Len(ids) = 0
     THEN [nodes |-> leaves, heap |-> ids, root |-> NoNode,
           pc |-> "failed", raised |-> "IndexError"]
     ELSE IF Len(h) = 1
          THEN [nodes |-> Append(leaves,
                                 HuffmanNode(NoSymbol, leaves[h[1]].prob, h[1], NoNode)),
                heap |-> h, root |-> Len(leaves) + 1,
                pc |-> "part2_codes", raised |-> "None"]
          ELSE [nodes |-> leaves, heap |-> h, root |-> NoNode,
                pc |-> "part2_merge", raised |-> "None"]

\* build_huffman_tree up to its loop: the heap of leaves, the return for no
\* symbol, heapify, and the return for one symbol: [nodes, heap, root, pc, raised]
build_huffman_tree_head(probs) ==
  LET leaves == Leaves(probs)
      ids == [i \in 1..Len(leaves) |-> i]
      h == heapify(leaves, ids)
  IN IF Len(ids) = 0
     THEN [nodes |-> leaves, heap |-> ids, root |-> NoNode,
           pc |-> "part2_codes", raised |-> "None"]
     ELSE IF Len(h) = 1
          THEN [nodes |-> Append(leaves,
                                 HuffmanNode(NoSymbol, leaves[h[1]].prob, h[1], NoNode)),
                heap |-> h, root |-> Len(leaves) + 1,
                pc |-> "part2_codes", raised |-> "None"]
          ELSE [nodes |-> leaves, heap |-> h, root |-> NoNode,
                pc |-> "part2_merge", raised |-> "None"]

\* Part 2: huff_root = build_huffman_tree(probabilities), up to its loop
BuildHeap ==
  /\ pc = "part2_tree"
  /\ LET r == build_huffman_tree_head(probabilities)
     IN /\ nodes' = r.nodes
        /\ heap' = r.heap
        /\ huff_root' = r.root
        /\ raised' = r.raised
        /\ pc' = r.pc
  /\ UNCHANGED <<text, probabilities, huff_codes, encoded_bits,
                 decoded_text, hamming_bits, pad_bits, error_interval, seed,
                 corrupted_bits, flipped, recovered_bits, error_positions, rng>>
  /\ UNCHANGED thrVars

\* one pass of `while len(heap) > 1`, and `return heap[0]` after the last
MergeStep ==
  /\ pc = "part2_merge"
  /\ Len(heap) > 1
  /\ LET r == merge_step(nodes, heap)
     IN /\ nodes' = r.nodes
        /\ heap' = r.heap
        /\ IF Len(r.heap) > 1
           THEN /\ huff_root' = huff_root
                /\ pc' = "part2_merge"
           ELSE /\ huff_root' = r.heap[1]
                /\ pc' = "part2_codes"
  /\ UNCHANGED <<raised, text, probabilities, huff_codes, encoded_bits,
                 decoded_text, hamming_bits, pad_bits, error_interval, seed,
                 corrupted_bits, flipped, recovered_bits, error_positions, rng>>
  /\ UNCHANGED thrVars

\* Part 2: huff_codes = build_huffman_codes(huff_root);
\*         encoded_bits = huffman_encode(text, huff_codes)
Part2Encode ==
  /\ pc = "part2_codes"
  /\ LET codes == build_huffman_codes(nodes, huff_root)
     IN /\ huff_codes' = codes
        /\ encoded_bits' = huffman_encode(text, codes)
  /\ pc' = "part3"
  /\ UNCHANGED <<raised, text, probabilities, nodes, heap, huff_root,
                 decoded_text, hamming_bits, pad_bits, error_interval, seed,
                 corrupted_bits, flipped, recovered_bits, error_positions, rng>>
  /\ UNCHANGED thrVars

\* Part 3: decoded_text = huffman_decode(encoded_bits, huff_root)
Part3 ==
  /\ pc = "part3"
  /\ LET r == huffman_decode(nodes, encoded_bits, huff_root)
     IN /\ decoded_text' = r.out
        /\ raised' = r.raised
        /\ pc' = IF r.raised = "None" THEN "part4" ELSE "failed"
  /\ UNCHANGED <<text, probabilities, nodes, heap, huff_root, huff_codes,
                 encoded_bits, hamming_bits, pad_bits, error_interval, seed,
                 corrupted_bits, flipped, recovered_bits, error_positions, rng>>
  /\ UNCHANGED thrVars

\* Part 4: hamming_bits, pad_bits = hamming_7_4_encode(encoded_bits)
Part4 ==
  /\ pc = "part4"
  /\ LET r == hamming_7_4_encode(encoded_bits)
     IN /\ hamming_bits' = r.bits
        /\ pad_bits' = r.pad
  /\ pc' = "part5"
  /\ UNCHANGED <<raised, text, probabilities, nodes, heap, huff_root, huff_codes,
                 encoded_bits, decoded_text, error_interval, seed, corrupted_bits,
                 flipped, recovered_bits, error_positions, rng>>
  /\ UNCHANGED thrVars

\* the 0-based indices at which two streams of one length differ
Differences(x, y) == {i \in 0..(Len(x) - 1) : x[i + 1] # y[i + 1]}

\* Part 5: corrupted_bits = add_errors(hamming_bits, interval, seed)
Part5 ==
  /\ pc = "part5"
  /\ \E i \in 0..MaxInterval, s \in Seeds :
       LET r == add_errors(hamming_bits, i, s, rng)
       IN /\ error_interval' = i
          /\ seed' = s
          /\ corrupted_bits' = r.out
          /\ flipped' = Differences(hamming_bits, r.out)
          /\ rng' = r.rng
  /\ pc' = "part6"
  /\ UNCHANGED <<raised, text, probabilities, nodes, heap, huff_root, huff_codes,
                 encoded_bits, decoded_text, hamming_bits, pad_bits,
                 recovered_bits, error_positions>>
  /\ UNCHANGED thrVars

\* recovered_bits = hamming_7_4_decode(corrupted_bits, pad_bits), called at
\* position `at`; the run goes on to `to`, or fails with the exception raised
Decode(at, to) ==
  /\ pc = at
  /\ LET r == hamming_7_4_decode(corrupted_bits, pad_bits)
     IN /\ recovered_bits' = r.out
        /\ error_positions' = r.error_pos
        /\ raised' = r.raised
        /\ pc' = IF r.raised = "None" THEN to ELSE "failed"
  /\ UNCHANGED <<text, probabilities, nodes, heap, huff_root, huff_codes,
                 encoded_bits, decoded_text, hamming_bits, pad_bits,
                 error_interval, seed, corrupted_bits, flipped, rng>>
  /\ UNCHANGED thrVars

\* Part 6: recovered_bits = hamming_7_4_decode(corrupted_bits, pad_bits)
Part6 == Decode("part6", "done")

Next ==
  \/ Part1
  \/ BuildHeap
  \/ MergeStep
  \/ Part2Encode
  \/ Part3
  \/ Part4
  \/ Part5
  \/ Part6

Spec == Init /\ [][Next]_vars

\* ------------------------------------------------- the channel coder alone

\* hamming_7_4_encode is handed any bitstream, or hamming_7_4_decode is
\* called directly with any stream and pad count
InitHamming ==
  /\ \/ /\ pc = "part4"
        /\ encoded_bits \in BitStrings(MaxBits)
        /\ corrupted_bits = <<>>
        /\ pad_bits = 0
     \/ /\ pc = "call_decode"
        /\ encoded_bits = <<>>
        /\ corrupted_bits \in BitStrings(MaxCoded)
        /\ pad_bits \in -1..MaxPad
  /\ text = <<>>
  /\ NoArtifacts
  /\ rng = random_seed(123)
  /\ NoThreads

\* the coded stream enters the channel unchanged
Transmit ==
  /\ pc = "part5"
  /\ corrupted_bits' = hamming_bits
  /\ pc' = "channel"
  /\ UNCHANGED <<raised, text, probabilities, nodes, heap, huff_root, huff_codes,
                 encoded_bits, decoded_text, hamming_bits, pad_bits,
                 error_interval, seed, flipped, recovered_bits, error_positions,
                 rng>>
  /\ UNCHANGED thrVars

\* the channel flips one more bit of the stream
FlipBit ==
  /\ pc = "channel"
  /\ Cardinality(flipped) < MaxFlips
  /\ \E i \in 0..(Len(corrupted_bits) - 1) :
       /\ i \notin flipped
       /\ corrupted_bits' = [corrupted_bits EXCEPT ![i + 1] = FlipChar(@)]
       /\ flipped' = flipped \cup {i}
  /\ UNCHANGED <<pc, raised, text, probabilities, nodes, heap, huff_root,
                 huff_codes, encoded_bits, decoded_text, hamming_bits, pad_bits,
                 error_interval, seed, recovered_bits, error_positions, rng>>
  /\ UNCHANGED thrVars

\* the channel hands the stream to Part 6
Deliver ==
  /\ pc = "channel"
  /\ pc' = "part6"
  /\ UNCHANGED <<raised, text, probabilities, nodes, heap, huff_root, huff_codes,
                 encoded_bits, decoded_text, hamming_bits, pad_bits,
                 error_interval, seed, corrupted_bits, flipped, recovered_bits,
                 error_positions, rng>>
  /\ UNCHANGED thrVars

\* a direct call hamming_7_4_decode(corrupted_bits, pad_bits)
DecodeCall == Decode("call_decode", "returned")

NextHamming ==
  \/ Part4
  \/ Transmit
  \/ FlipBit
  \/ Deliver
  \/ Part6
  \/ DecodeCall

SpecHamming == InitHamming /\ [][NextHamming]_vars

\* ------------------------------------------------- concurrent add_errors

\* two add_errors calls, one per thread, with different seeds; they share the
\* module-level generator of `random`
InitThreads ==
  /\ pc = "idle"
  /\ text = <<>>
  /\ encoded_bits = <<>>
  /\ pad_bits = 0
  /\ corrupted_bits = <<>>
  /\ NoArtifacts
  /\ rng \in {random_seed(s) : s \in Seeds}
  /\ thr_pc = [t \in Threads |-> "call"]
  /\ thr_bits \in [Threads -> BitStrings(MaxThreadBits)]
  /\ thr_interval \in [Threads -> 0..MaxThreadInterval]
  /\ thr_seed \in {f \in [Threads -> Seeds] : \A t, u \in Threads : t # u => f[t] # f[u]}
  /\ thr_start = [t \in Threads |-> 0]
  /\ thr_result = [t \in Threads |-> <<>>]

\* if not bitstring or interval <= 0: return bitstring
ThrCheck(t) ==
  /\ thr_pc[t] = "call"
  /\ IF thr_bits[t] = <<>> \/ thr_interval[t] <= 0
     THEN /\ thr_result' = [thr_result EXCEPT ![t] = thr_bits[t]]
          /\ thr_pc' = [thr_pc EXCEPT ![t] = "done"]
     ELSE /\ thr_result' = thr_result
          /\ thr_pc' = [thr_pc EXCEPT ![t] = "seed"]
  /\ UNCHANGED <<thr_bits, thr_interval, thr_seed, thr_start, rng>>
  /\ UNCHANGED pipeVars

\* random.seed(seed)
ThrSeed(t) ==
  /\ thr_pc[t] = "seed"
  /\ rng' = random_seed(thr_seed[t])
  /\ thr_pc' = [thr_pc EXCEPT ![t] = "draw"]
  /\ UNCHANGED <<thr_bits, thr_interval, thr_seed, thr_start, thr_result>>
  /\ UNCHANGED pipeVars

\* start_index = random.randint(0, max(0, interval - 1)) if interval > 1 else 0
ThrDraw(t) ==
  /\ thr_pc[t] = "draw"
  /\ LET d == draw_start(rng, thr_interval[t])
     IN /\ thr_start' = [thr_start EXCEPT ![t] = d.value]
        /\ rng' = d.rng
  /\ thr_pc' = [thr_pc EXCEPT ![t] = "flip"]
  /\ UNCHANGED <<thr_bits, thr_interval, thr_seed, thr_result>>
  /\ UNCHANGED pipeVars

\* the flip loop over the call's own list, and the return
ThrFlip(t) ==
  /\ thr_pc[t] = "flip"
  /\ thr_result' = [thr_result EXCEPT ![t] = flip_loop(thr_bits[t], thr_start[t], thr_interval[t])]
  /\ thr_pc' = [thr_pc EXCEPT ![t] = "done"]
  /\ UNCHANGED <<thr_bits, thr_interval, thr_seed, thr_start, rng>>
  /\ UNCHANGED pipeVars

NextThreads ==
  \E t \in Threads :
    \/ ThrCheck(t)
    \/ ThrSeed(t)
    \/ ThrDraw(t)
    \/ ThrFlip(t)

SpecThreads == InitThreads /\ [][NextThreads]_vars

\* ------------------------------------------------- the Huffman decoder alone

\* the tree and the codes are built from some text, then huffman_decode is
\* called with that tree on any bitstream
InitHuffman ==
  /\ pc = "part1"
  /\ text \in UNION {[1..k -> Symbols] : k \in 0..MaxTreeLen}
  /\ encoded_bits = <<>>
  /\ pad_bits = 0
  /\ corrupted_bits = <<>>
  /\ NoArtifacts
  /\ rng = random_seed(123)
  /\ NoThreads

\* decoded_text = huffman_decode(bits, huff_root) for any bitstream; the
\* argument is kept in recovered_bits
HuffmanDecodeCall ==
  /\ pc = "part3"
  /\ \E bits \in BitStrings(MaxStream) :
       LET r == huffman_decode(nodes, bits, huff_root)
       IN /\ recovered_bits' = bits
          /\ decoded_text' = r.out
          /\ raised' = r.raised
          /\ pc' = IF r.raised = "None" THEN "decoded" ELSE "failed"
  /\ UNCHANGED <<text, probabilities, nodes, heap, huff_root, huff_codes,
                 encoded_bits, hamming_bits, pad_bits, error_interval, seed,
                 corrupted_bits, flipped, error_positions, rng>>
  /\ UNCHANGED thrVars

NextHuffman ==
  \/ Part1
  \/ BuildHeap
  \/ MergeStep
  \/ Part2Encode
  \/ HuffmanDecodeCall

SpecHuffman == InitHuffman /\ [][NextHuffman]_vars

\* ------------------------------------------------- properties

\* the symbols of a probability mapping
Keys(probs) == {probs[i].sym : i \in 1..Len(probs)}

IsPrefix(x, y) == Len(x) <= Len(y) /\ SubSeq(y, 1, Len(x)) = x

AfterPart2 == pc \in {"part3", "part4", "part5", "part6", "done", "failed"}
AfterPart3 == pc \in {"part4", "part5", "part6", "done", "failed"}

\* C1: once Part 3 has run on a non-empty text, with the tree and the codes
\* built from the text's own probabilities, no exception was raised and the
\* text decoded from the Huffman-encoded bits is the text; texts over a single
\* symbol included.
C1_HuffmanRoundTrip ==
  (AfterPart3 /\ text # <<>>) =>
     /\ pc # "failed"
     /\ raised = "None"
     /\ decoded_text = text

\* a text of several characters over one symbol has been encoded and decoded
C1_Witness ==
  /\ pc = "part4"
  /\ Len(text) = 3
  /\ Len(probabilities) = 1
  /\ encoded_bits = <<"0", "0", "0">>
  /\ decoded_text = text

\* C2: the code table built from a non-empty probability mapping has exactly
\* one entry per symbol, every code is a non-empty bitstring, the only symbol
\* of a one-symbol alphabet gets "0", and no code is a prefix of the code of
\* another symbol.
C2_PrefixFree ==
  (AfterPart2 /\ probabilities # <<>>) =>
     /\ DOMAIN huff_codes = Keys(probabilities)
     /\ \A a \in DOMAIN huff_codes :
          /\ huff_codes[a] # <<>>
          /\ \A i \in 1..Len(huff_codes[a]) : huff_codes[a][i] \in Bit
     /\ Len(probabilities) = 1 => huff_codes[probabilities[1].sym] = <<"0">>
     /\ \A a, b \in DOMAIN huff_codes :
          a # b => ~IsPrefix(huff_codes[a], huff_codes[b])

\* a table for three symbols with one code of one bit and two of two bits
C2_Witness ==
  /\ pc = "part3"
  /\ Len(probabilities) = 3
  /\ Cardinality(DOMAIN huff_codes) = 3
  /\ {Len(huff_codes[a]) : a \in DOMAIN huff_codes} = {1, 2}

\* the blocks of a coded stream in which the channel flipped k bits
FlipsIn(j) == {i \in flipped : i \div 7 = j - 1}

ChannelStage == pc \in {"part5", "channel", "part6", "done"}

\* C3: hamming_7_4_encode of any bitstream B pads with the least pad in 0..3
\* that makes the length a multiple of 4 and gives 7 bits for every 4 padded
\* bits; decoding the unchanged coded stream with that pad count gives B.
C3_HammingRoundTrip ==
  /\ ChannelStage =>
       /\ pad_bits \in 0..3
       /\ (Len(encoded_bits) + pad_bits) % 4 = 0
       /\ 4 * Len(hamming_bits) = 7 * (Len(encoded_bits) + pad_bits)
  /\ (pc = "done" /\ flipped = {}) =>
       /\ corrupted_bits = hamming_bits
       /\ raised = "None"
       /\ recovered_bits = encoded_bits

\* five bits were padded by three, coded in two blocks, and decoded unchanged
C3_Witness ==
  /\ pc = "done"
  /\ flipped = {}
  /\ Len(encoded_bits) = 5
  /\ pad_bits = 3
  /\ Len(hamming_bits) = 14
  /\ recovered_bits = encoded_bits

\* C4: when every block of the coded stream carries at most one flipped bit,
\* hamming_7_4_decode computes for each block the 1-indexed position of its
\* flipped bit as error_pos (0 for a block without one), flipping that bit
\* gives back the block that was sent, and the decoded bits are the data bits.
C4_SingleErrorCorrected ==
  (pc = "done" /\ \A j \in 1..(Len(hamming_bits) \div 7) : Cardinality(FlipsIn(j)) <= 1) =>
     /\ Len(error_positions) = Len(hamming_bits) \div 7
     /\ \A j \in 1..(Len(hamming_bits) \div 7) :
          /\ \A i \in FlipsIn(j) : error_positions[j] = i - 7 * (j - 1) + 1
          /\ FlipsIn(j) = {} => error_positions[j] = 0
          /\ SubSeq(correct_block(bitstr_to_int_list(corrupted_bits), 7 * (j - 1),
                                  error_positions[j]), 7 * j - 6, 7 * j)
               = SubSeq(bitstr_to_int_list(hamming_bits), 7 * j - 6, 7 * j)
     /\ recovered_bits = encoded_bits

\* two blocks, the last bit of the first and the first bit of the second flipped
C4_Witness ==
  /\ pc = "done"
  /\ Len(hamming_bits) = 14
  /\ flipped = {6, 7}
  /\ error_positions = <<7, 1>>
  /\ recovered_bits = encoded_bits

\* C5: in the pipeline, with any text, any seed and an error interval of 7 or
\* more, Part 6 recovers exactly the Huffman-encoded bits of Part 2, and
\* Huffman-decoding the recovered bits gives the text.
C5_PipelineRecovers ==
  /\ pc # "failed"
  /\ (pc = "done" /\ error_interval >= 7) =>
       /\ recovered_bits = encoded_bits
       /\ huffman_decode(nodes, recovered_bits, huff_root) = [raised |-> "None", out |-> text]

\* a run with interval 7 in which add_errors flipped a bit in each of several blocks
C5_Witness ==
  /\ pc = "done"
  /\ error_interval = 7
  /\ Cardinality(flipped) >= 2
  /\ corrupted_bits # hamming_bits
  /\ recovered_bits = encoded_bits

IsAaab == text = <<"a", "a", "a", "b">>

Aaab_Probabilities ==
  /\ Len(probabilities) = 2
  /\ probabilities[1].sym = "a"
  /\ 4 * probabilities[1].prob.num = 3 * probabilities[1].prob.den
  /\ probabilities[2].sym = "b"
  /\ 4 * probabilities[2].prob.num = 1 * probabilities[2].prob.den

\* C6 as stated: for "aaab" the probabilities are a = 3/4 and b = 1/4, the
\* code table is {a: "0", b: "1"}, the encoded bits are "0001", and the
\* Hamming encoder pads nothing and gives one 7-bit block.
C6_Original ==
  (IsAaab /\ pc \in {"part5", "part6", "done"}) =>
     /\ Aaab_Probabilities
     /\ huff_codes = [x \in {"a", "b"} |-> IF x = "a" THEN <<"0">> ELSE <<"1">>]
     /\ encoded_bits = <<"0", "0", "0", "1">>
     /\ pad_bits = 0
     /\ Len(hamming_bits) = 7

\* C6 amended: for "aaab" the probabilities are a = 3/4 and b = 1/4, the code
\* table is {a: "1", b: "0"} (the lighter node, popped first, is the left
\* child), the encoded bits are "1110", and the Hamming encoder pads nothing
\* and gives one 7-bit block.
C6_Aaab ==
  (IsAaab /\ pc \in {"part5", "part6", "done"}) =>
     /\ Aaab_Probabilities
     /\ huff_codes = [x \in {"a", "b"} |-> IF x = "a" THEN <<"1">> ELSE <<"0">>]
     /\ encoded_bits = <<"1", "1", "1", "0">>
     /\ pad_bits = 0
     /\ Len(hamming_bits) = 7

\* "aaab" has been through Part 4
C6_Witness ==
  /\ IsAaab
  /\ pc = "part5"
  /\ Len(hamming_bits) = 7

\* node x comes before node y in the order (weight, insertion sequence number)
FifoBefore(ns, x, y) ==
  \/ HuffmanNode_lt(ns, x, y)
  \/ ~HuffmanNode_lt(ns, y, x) /\ x < y

\* the least node of a set in that order
FifoMin(ns, S) == CHOOSE x \in S : \A y \in S \ {x} : FifoBefore(ns, x, y)

\* C7: at every pass of the merge loop, the two nodes build_huffman_tree
\* removes from the queue are the two smallest in the order (weight, insertion
\* sequence number): among nodes of equal weight the one inserted earlier is
\* removed first.
C7_FifoTieBreak ==
  (pc = "part2_merge" /\ Len(heap) > 1) =>
     LET queued == {heap[i] : i \in 1..Len(heap)}
         first == FifoMin(nodes, queued)
         second == FifoMin(nodes, queued \ {first})
         r == merge_step(nodes, heap)
     IN r.n1 = first /\ r.n2 = second

\* what add_errors(bits, interval, seed) returns when it runs alone
AddErrorsAlone(bits, interval, s) == add_errors(bits, interval, s, random_seed(s)).out

\* C8: under every interleaving of concurrent add_errors calls with different
\* seeds, each call returns the bitstream it returns when run alone with its
\* own arguments.
C8_ThreadsIndependent ==
  \A t \in Threads :
     thr_pc[t] = "done" =>
       thr_result[t] = AddErrorsAlone(thr_bits[t], thr_interval[t], thr_seed[t])

\* C9: hamming_7_4_decode raises ValueError, and returns nothing, for every
\* non-empty stream whose length is not a multiple of 7, whatever the pad
\* count; for a stream whose length is a multiple of 7 it raises nothing.
C9_LengthMismatch ==
  (pc \in {"returned", "done", "failed"}) =>
     IF corrupted_bits # <<>> /\ Len(corrupted_bits) % 7 # 0
     THEN pc = "failed" /\ raised = "ValueError" /\ recovered_bits = <<>>
     ELSE pc # "failed" /\ raised = "None"

\* a direct call with eight bits and a pad count above 3 has failed
C9_Witness ==
  /\ pc = "failed"
  /\ raised = "ValueError"
  /\ Len(corrupted_bits) = 8
  /\ pad_bits = 4

\* C10: for the empty text no stage raises and every artifact is empty: no
\* probabilities, no codes, no Huffman bits, no Hamming bits and pad count 0,
\* no corrupted bits, no recovered bits, no decoded text; so the recovered
\* bits are the encoded bits and the decoded text is the text.
C10_EmptySource ==
  (text = <<>> /\ pc \in {"part1", "part2_tree", "part2_merge", "part2_codes",
                          "part3", "part4", "part5", "part6", "done", "failed"}) =>
     /\ pc \notin {"failed", "part2_merge"}
     /\ raised = "None"
     /\ probabilities = <<>>
     /\ nodes = <<>> /\ huff_root = NoNode
     /\ DOMAIN huff_codes = {}
     /\ encoded_bits = <<>>
     /\ decoded_text = <<>>
     /\ hamming_bits = <<>> /\ pad_bits = 0
     /\ corrupted_bits = <<>>
     /\ recovered_bits = <<>>
     /\ recovered_bits = encoded_bits /\ decoded_text = text

\* the run on the empty text has ended, with a positive error interval
C10_Witness ==
  /\ text = <<>>
  /\ pc = "done"
  /\ error_interval = MaxInterval
  /\ recovered_bits = encoded_bits
  /\ decoded_text = text

\* the start index add_errors draws for (interval, seed)
StartOf(interval, s) == draw_start(random_seed(s), interval).value

AfterPart5 == pc \in {"part6", "done", "failed"}

\* C11: add_errors returns the bitstring unchanged when it is empty or the
\* interval is not positive; otherwise the result has the same length, the
\* bit at index i is complemented exactly when i >= start and (i - start) is
\* a multiple of the interval, every other bit is unchanged, and start, in
\* 0..interval-1 (0 for interval 1), is determined by (interval, seed) alone,
\* whatever the generator's state before the call.
C11_AddErrorsPattern ==
  AfterPart5 =>
     IF hamming_bits = <<>> \/ error_interval <= 0
     THEN corrupted_bits = hamming_bits
     ELSE LET start == StartOf(error_interval, seed)
          IN /\ Len(corrupted_bits) = Len(hamming_bits)
             /\ start \in 0..(error_interval - 1)
             /\ error_interval = 1 => start = 0
             /\ \A i \in 0..(Len(hamming_bits) - 1) :
                  IF i >= start /\ (i - start) % error_interval = 0
                  THEN /\ corrupted_bits[i + 1] # hamming_bits[i + 1]
                       /\ corrupted_bits[i + 1] \in Bit
                  ELSE corrupted_bits[i + 1] = hamming_bits[i + 1]

\* two blocks, interval 3, seed 2024: start 1, every third bit from it flipped
C11_Witness ==
  /\ pc = "part6"
  /\ error_interval = 3
  /\ seed = 2024
  /\ Len(hamming_bits) = 14
  /\ flipped = {1, 4, 7, 10, 13}

\* the symbols whose code is a prefix of the bits
Matching(codes, bits) == {a \in DOMAIN codes : IsPrefix(codes[a], bits)}

RECURSIVE ParseByCodes(_, _, _)
\* the complete codewords at the front of the bits, read off the code table:
\* [symbols, rest]
ParseByCodes(codes, bits, symbols) ==
  IF Matching(codes, bits) = {}
  THEN [symbols |-> symbols, rest |-> bits]
  ELSE LET a == CHOOSE x \in Matching(codes, bits) : TRUE
       IN ParseByCodes(codes, SubSeq(bits, Len(codes[a]) + 1, Len(bits)),
                       Append(symbols, a))

\* x is a proper prefix of some codeword
ProperPrefix(codes, x) ==
  \E a \in DOMAIN codes : IsPrefix(x, codes[a]) /\ Len(x) < Len(codes[a])

DecodeReturned == pc \in {"decoded", "failed"}

\* C12: with the tree of a non-empty distribution, on a bitstream made of
\* complete codewords followed by a proper (possibly empty) prefix of a
\* codeword, huffman_decode raises nothing and returns exactly the symbols of
\* the complete codewords, in order; the trailing partial path gives no symbol.
C12_PartialPathDiscarded ==
  (DecodeReturned /\ probabilities # <<>>) =>
     LET p == ParseByCodes(huff_codes, recovered_bits, <<>>)
     IN ProperPrefix(huff_codes, p.rest) =>
          /\ pc = "decoded"
          /\ raised = "None"
          /\ decoded_text = p.symbols

\* three symbols; two complete codewords, then one bit of a two-bit codeword
C12_Witness ==
  /\ pc = "decoded"
  /\ Len(probabilities) = 3
  /\ LET p == ParseByCodes(huff_codes, recovered_bits, <<>>)
     IN /\ Len(p.symbols) = 2
        /\ Len(p.rest) = 1
        /\ ProperPrefix(huff_codes, p.rest)
        /\ decoded_text = p.symbols
        /\ Len(recovered_bits) = 4

\* C14: with the tree of a non-empty distribution (the one-symbol tree
\* included), huffman_decode consumes every bitstring without raising: the
\* child selected by each bit exists.
C14_ChildAlwaysExists ==
  (DecodeReturned /\ probabilities # <<>>) =>
     /\ pc = "decoded"
     /\ raised = "None"

\* block j of the stream hamming_7_4_decode was handed, as ints
CorruptedBlock(j) == SubSeq(bitstr_to_int_list(corrupted_bits), 7 * j - 6, 7 * j)

\* the 4 data bits decoded for block j, given the error_pos recorded for it
BlockResult(j) ==
  LET fixed == correct_block(CorruptedBlock(j), 0, error_positions[j])
  IN <<fixed[3], fixed[5], fixed[6], fixed[7]>>

\* the 4 data bits that were encoded into block j
OriginalData(j) ==
  SubSeq(bitstr_to_int_list(encoded_bits \o Zeros(pad_bits)), 4 * j - 3, 4 * j)

\* C13: a stream with flipped bits is decoded without any error being
\* raised; for a block with exactly two flipped bits the error_pos and the
\* 4-bit result are those of the corrupted block alone, the result differs
\* from the data bits that were encoded, and it is what is returned (up to the
\* stripped padding).
C13_DoubleErrorSilent ==
  /\ (flipped # {} /\ pc \in {"done", "failed", "returned"}) =>
        pc = "done" /\ raised = "None"
  /\ pc = "done" =>
       \A j \in 1..(Len(hamming_bits) \div 7) :
          Cardinality(FlipsIn(j)) = 2 =>
            /\ error_positions[j] = syndrome(CorruptedBlock(j), 0)
            /\ BlockResult(j) # OriginalData(j)
            /\ \A k \in 1..4 :
                 4 * (j - 1) + k <= Len(recovered_bits) =>
                   recovered_bits[4 * (j - 1) + k]
                     = int_list_to_bitstr(BlockResult(j))[k]

\* two parity bits of the first of two blocks flipped: error_pos 3, and the
\* first data bit comes out wrong
C13_Witness ==
  /\ pc = "done"
  /\ Len(hamming_bits) = 14
  /\ flipped = {0, 1}
  /\ error_positions = <<3, 0>>
  /\ recovered_bits # encoded_bits
  /\ raised = "None"

====
